---- MODULE Spec2Model ----
(***************************************************************************)
(* Model of the asset codec of librpgmaker (rpg_file.rs, lib.rs): an       *)
(* RpgFile value with its byte buffer and type-state marker, the           *)
(* constructors from_raw_parts_encrypted / from_raw_parts_decrypted, and   *)
(* the consuming transforms decrypt, encrypt and restore_img, built on the *)
(* XOR primitive rpg_xor.  Further specifications model the library's pure  *)
(* functions on paths and hex strings (SpecLib) and the configuration      *)
(* document System.json with its key and flags (SpecCfg), and the batch    *)
(* operations decrypt_all and encrypt_all over a game's files (SpecBatch). *)
(***************************************************************************)
EXTENDS Integers, Sequences, FiniteSets, TLC

\* ------------------------------------------------------------------------
\* Bounds of the model
\* ------------------------------------------------------------------------

\* longest payload that follows the 32 header bytes of an input buffer
MaxPayload == 2

\* number of transforms applied to one RpgFile value after its construction
MaxOps == 2

\* longest string of arbitrary characters handed to decode_hex
MaxHexLen == 3

\* ------------------------------------------------------------------------
\* Program constants
\* ------------------------------------------------------------------------

\* length of the rpgmaker header and of the XORed header (drain(0..16),
\* split_at_mut(16))
HeaderLen == 16

\* decrypt and restore_img refuse data.len() <= 32
MinLen == 32

\* const RPG_HEADER
RPG_HEADER ==
    <<82, 80, 71, 77, 86, 0, 0, 0, 0, 3, 1, 0, 0, 0, 0, 0>>

\* const PNG_HEADER
PNG_HEADER ==
    <<137, 80, 78, 71, 13, 10, 26, 10, 0, 0, 0, 13, 73, 72, 68, 82>>

\* bytes 16..32 of IMG_ENC in tests.rs: the PNG header XORed with KEY
IMG_ENC_HEADER ==
    <<134, 95, 65, 72, 2, 5, 21, 5, 15, 15, 15, 2, 70, 71, 75, 93>>

\* const KEY of tests.rs
KEY == [i \in 1..16 |-> 15]

\* enum RpgFileType
RpgFileType == {"Audio", "Video", "Image"}

\* ------------------------------------------------------------------------
\* Inputs
\* ------------------------------------------------------------------------

\* the keys handed to decrypt and encrypt: the empty key, the two keys of
\* tests.rs, a zero key, and two different keys with the same repetition
Keys == { <<>>, KEY, <<1, 2, 3, 4, 5>>, <<0>>, <<1>>, <<1, 1>> }

PayloadBytes == {0, 174}

Payloads == [1..MaxPayload -> PayloadBytes]

\* buffers of full length: 16 bytes, 16 bytes, payload
FullBuffers ==
    { a \o b \o p : a \in {RPG_HEADER, PNG_HEADER},
                    b \in {IMG_ENC_HEADER, RPG_HEADER},
                    p \in Payloads }

\* every prefix of a full buffer: all lengths 0 .. 32 + MaxPayload
Buffers == { SubSeq(f, 1, n) : f \in FullBuffers, n \in 0..(2 * HeaderLen + MaxPayload) }

\* ------------------------------------------------------------------------
\* Pure functions
\* ------------------------------------------------------------------------

RECURSIVE BitXor(_, _, _)
\* a ^ b on the low n bits
BitXor(a, b, n) ==
    IF n = 0 THEN 0
    ELSE (((a % 2) + (b % 2)) % 2) + (2 * BitXor(a \div 2, b \div 2, n - 1))

\* u8 ^ u8
ByteXor(a, b) == BitXor(a, b, 8)

\* rpg_xor with the key index taken one too far
rpg_xor_shifted(d, k) ==
    IF Len(d) > 0 /\ Len(k) = 0
    THEN [panic |-> TRUE, data |-> d]
    ELSE [panic |-> FALSE,
          data  |-> [i \in 1..Len(d) |-> ByteXor(d[i], k[(i % Len(k)) + 1])]]

\* rpg_xor: data[i] ^= key[i % key.len()] for every index of data (0-based
\* in the source, 1-based here).  The remainder by key.len() == 0 panics at
\* the first element, before any byte is written; over an empty slice the
\* closure never runs.
rpg_xor(d, k) ==
    IF Len(d) > 0 /\ Len(k) = 0
    THEN [panic |-> TRUE, data |-> d]
    ELSE [panic |-> FALSE,
          data  |-> [i \in 1..Len(d) |-> ByteXor(d[i], k[((i - 1) % Len(k)) + 1])]]

\* decrypt dropping the magic header before it looks at the length
decrypt_drain_first(d, k) ==
    LET drained == SubSeq(d, HeaderLen + 1, Len(d)) IN
    IF Len(d) <= MinLen
    THEN [res |-> "FileTooShort", data |-> drained]
    ELSE LET x == rpg_xor(SubSeq(drained, 1, HeaderLen), k)
         IN  IF x.panic
             THEN [res |-> "Panic", data |-> drained]
             ELSE [res  |-> "Ok",
                   data |-> x.data \o SubSeq(drained, HeaderLen + 1, Len(drained))]

\* decrypt refusing only data.len() < 32
decrypt_lt(d, k) ==
    IF Len(d) < MinLen
    THEN [res |-> "FileTooShort", data |-> d]
    ELSE LET drained == SubSeq(d, HeaderLen + 1, Len(d))
             x       == rpg_xor(SubSeq(drained, 1, HeaderLen), k)
         IN  IF x.panic
             THEN [res |-> "Panic", data |-> drained]
             ELSE [res  |-> "Ok",
                   data |-> x.data \o SubSeq(drained, HeaderLen + 1, Len(drained))]

\* decrypt XORing the whole drained buffer instead of its first 16 bytes
decrypt_xor_all(d, k) ==
    IF Len(d) <= MinLen
    THEN [res |-> "FileTooShort", data |-> d]
    ELSE LET drained == SubSeq(d, HeaderLen + 1, Len(d))
             x       == rpg_xor(drained, k)
         IN  IF x.panic
             THEN [res |-> "Panic", data |-> drained]
             ELSE [res |-> "Ok", data |-> x.data]

\* RpgFile<Encrypted>::decrypt on self.data = d: the outcome and self.data
\* as it is when the call returns or unwinds
decrypt(d, k) ==
    IF Len(d) <= MinLen
    THEN [res |-> "FileTooShort", data |-> d]
    ELSE LET drained == SubSeq(d, HeaderLen + 1, Len(d))
             x       == rpg_xor(SubSeq(drained, 1, HeaderLen), k)
         IN  IF x.panic
             THEN [res |-> "Panic", data |-> drained]
             ELSE [res  |-> "Ok",
                   data |-> x.data \o SubSeq(drained, HeaderLen + 1, Len(drained))]

\* encrypt XORing the whole buffer instead of its first 16 bytes
encrypt_xor_all(d, k) ==
    IF Len(d) < HeaderLen
    THEN [res |-> "Panic", data |-> d]
    ELSE LET x == rpg_xor(d, k)
         IN  IF x.panic
             THEN [res |-> "Panic", data |-> d]
             ELSE [res |-> "Ok", data |-> RPG_HEADER \o x.data]

\* RpgFile<Decrypted>::encrypt on self.data = d.  split_at_mut(16) panics
\* when d is shorter than 16 bytes; there is no other check.
encrypt(d, k) ==
    IF Len(d) < HeaderLen
    THEN [res |-> "Panic", data |-> d]
    ELSE LET x == rpg_xor(SubSeq(d, 1, HeaderLen), k)
         IN  IF x.panic
             THEN [res |-> "Panic", data |-> d]
             ELSE [res  |-> "Ok",
                   data |-> RPG_HEADER \o x.data \o SubSeq(d, HeaderLen + 1, Len(d))]

\* restore_img without the splice of the PNG header
restore_img_no_splice(d, t) ==
    IF t # "Image"
    THEN [res |-> "Panic", data |-> d]
    ELSE IF Len(d) <= MinLen
    THEN [res |-> "FileTooShort", data |-> d]
    ELSE [res |-> "Ok", data |-> SubSeq(d, HeaderLen + 1, Len(d))]

\* RpgFile<Encrypted>::restore_img on self.data = d of file type t
restore_img(d, t) ==
    IF t # "Image"
    THEN [res |-> "Panic", data |-> d]
    ELSE IF Len(d) <= MinLen
    THEN [res |-> "FileTooShort", data |-> d]
    ELSE LET drained == SubSeq(d, HeaderLen + 1, Len(d))
         IN  [res  |-> "Ok",
              data |-> PNG_HEADER \o SubSeq(drained, HeaderLen + 1, Len(drained))]

\* ------------------------------------------------------------------------
\* State
\* ------------------------------------------------------------------------

VARIABLES
    data,       \* RpgFile.data
    file_type,  \* RpgFile.file_type
    state,      \* RpgFile.state: the marker type, "Encrypted" or "Decrypted"
    res,        \* outcome of the last call on the value: "New" after a
                \* constructor, "Ok", "FileTooShort" (Err) or "Panic"
    hist        \* the calls made on the value since its construction:
                \* [op, key, data] with data the buffer the call received

codecVars == <<data, file_type, state, res, hist>>

\* a call of one of the library's functions on paths and strings
VARIABLES
    call,       \* the function called and its arguments
    ret         \* the value it returned

libVars == <<call, ret>>

\* the configuration document of a game
VARIABLES
    disk,        \* the files SYS_JSON_PATHS names under the game root: for
                 \* each whether it exists, and its text
    system_json  \* RpgGame.system_json: loaded, path, data, encrypted

cfgVars == <<disk, system_json>>

\* a game and a batch over its assets
VARIABLES
    key_bytes,      \* RpgGame.key_bytes
    verbose,        \* RpgGame.verbose
    num_files,      \* RpgGame.num_files: the cached count of scan_files
    assets,         \* the asset files under the game root and the output dir
    batch,          \* the running decrypt_all / encrypt_all call
    worker,         \* per asset, the position of the closure that handles it
    num_decrypted,  \* decrypt_all's AtomicI64
    out_dir         \* whether the directory of Output { dir } / Flatten { dir } exists

batchVars == <<key_bytes, verbose, num_files, assets, batch, worker, num_decrypted, out_dir>>

vars == <<codecVars, libVars, cfgVars, batchVars>>

\* no call of a library function has been made
LibIdle == call = [fn |-> "none"] /\ ret = [tag |-> "none"]

\* serde_json::Value: the value of a field of the document, or its absence
Absent == [kind |-> "absent", s |-> <<>>]

JBool(b) == [kind |-> "bool", s |-> <<IF b THEN "true" ELSE "false">>]

JString(str) == [kind |-> "string", s |-> str]

JNumber(digits) == [kind |-> "number", s |-> digits]

\* const HAS_ENC_AUIDO_KEY, HAS_ENC_IMG_KEY, ENCKEY_KEY, and a field the
\* library does not use
Fields == {"hasEncryptedAudio", "hasEncryptedImages", "encryptionKey", "gameTitle"}

\* the document without any field
EmptyDoc == [f \in Fields |-> Absent]

\* no game is open: no candidate file, no document loaded
CfgIdle ==
    /\ disk = [i \in 1..2 |-> [exists |-> FALSE, text |-> <<>>]]
    /\ system_json = [loaded |-> FALSE, path |-> 0, data |-> EmptyDoc, encrypted |-> FALSE]

\* the number of asset files of a game
MaxAssets == 2

Assets == 1..MaxAssets

\* a path without a file, and a file with its bytes
Missing == [exists |-> FALSE, bytes |-> <<>>]

Stored(b) == [exists |-> TRUE, bytes |-> b]

NoBatch ==
    [op |-> "none", output |-> "none", pc |-> "idle", scans |-> 0, persists |-> 0,
     num_files |-> 0, cached |-> FALSE, dir_existed |-> FALSE]

NoWorker == [pc |-> "none", data |-> <<>>, result |-> "none", index |-> 0]

\* no game is open for a batch
BatchIdle ==
    /\ key_bytes = <<>>
    /\ verbose = FALSE
    /\ num_files = [tag |-> "None", n |-> 0]
    /\ assets = [i \in Assets |-> [enc |-> Missing, dec |-> Missing, out |-> Missing, readable |-> TRUE]]
    /\ batch = NoBatch
    /\ worker = [i \in Assets |-> NoWorker]
    /\ num_decrypted = 0
    /\ out_dir = FALSE

\* no RpgFile value is under transformation
CodecIdle ==
    /\ data = <<>>
    /\ file_type = "Image"
    /\ state = "Encrypted"
    /\ res = "New"
    /\ hist = <<>>

\* the value is still owned by the caller: every transform takes self by
\* value, so after an Err or a panic nothing is left to call
Live == res \in {"New", "Ok"}

Last == hist[Len(hist)]

Called(o) == Len(hist) > 0 /\ Last.op = o

\* ------------------------------------------------------------------------
\* Operations
\* ------------------------------------------------------------------------

\* RpgFile::from_raw_parts_encrypted: the value as constructed
from_raw_parts_encrypted(d, t) ==
    /\ data = d
    /\ file_type = t
    /\ state = "Encrypted"
    /\ res = "New"
    /\ hist = <<>>

\* RpgFile::from_raw_parts_decrypted: the value as constructed
from_raw_parts_decrypted(d, t) ==
    /\ data = d
    /\ file_type = t
    /\ state = "Decrypted"
    /\ res = "New"
    /\ hist = <<>>

Init ==
    /\ \E d \in Buffers, t \in RpgFileType :
           \/ from_raw_parts_encrypted(d, t)
           \/ from_raw_parts_decrypted(d, t)
    /\ LibIdle
    /\ CfgIdle
    /\ BatchIdle

Decrypt(k) ==
    /\ Live
    /\ state = "Encrypted"
    /\ Len(hist) < MaxOps
    /\ LET r == decrypt(data, k)
       IN  /\ data' = r.data
           /\ res' = r.res
           /\ state' = IF r.res = "Ok" THEN "Decrypted" ELSE state
    /\ hist' = Append(hist, [op |-> "decrypt", key |-> k, data |-> data])
    /\ UNCHANGED <<file_type, libVars, cfgVars, batchVars>>

Encrypt(k) ==
    /\ Live
    /\ state = "Decrypted"
    /\ Len(hist) < MaxOps
    /\ LET r == encrypt(data, k)
       IN  /\ data' = r.data
           /\ res' = r.res
           /\ state' = IF r.res = "Ok" THEN "Encrypted" ELSE state
    /\ hist' = Append(hist, [op |-> "encrypt", key |-> k, data |-> data])
    /\ UNCHANGED <<file_type, libVars, cfgVars, batchVars>>

RestoreImg ==
    /\ Live
    /\ state = "Encrypted"
    /\ Len(hist) < MaxOps
    /\ LET r == restore_img(data, file_type)
       IN  /\ data' = r.data
           /\ res' = r.res
           /\ state' = IF r.res = "Ok" THEN "Decrypted" ELSE state
    /\ hist' = Append(hist, [op |-> "restore_img", key |-> <<>>, data |-> data])
    /\ UNCHANGED <<file_type, libVars, cfgVars, batchVars>>

Next ==
    \/ \E k \in Keys : Decrypt(k)
    \/ \E k \in Keys : Encrypt(k)
    \/ RestoreImg

Spec == Init /\ [][Next]_vars

\* ------------------------------------------------------------------------
\* Properties
\* ------------------------------------------------------------------------

\* key index of rpg_xor for the 1-based position i
KeyAt(k, i) == k[((i - 1) % Len(k)) + 1]

BeginsWith(d, h) == Len(d) >= Len(h) /\ SubSeq(d, 1, Len(h)) = h

\* C1: with a non-empty key, decrypt fails with FileTooShort exactly when
\* the buffer has 32 bytes or fewer, and succeeds on every buffer of 33
\* bytes or more.
C1_DecryptLengthBoundary ==
    (Called("decrypt") /\ Len(Last.key) > 0) =>
        /\ (res = "FileTooShort") <=> (Len(Last.data) <= 32)
        /\ (Len(Last.data) >= 33) => (res = "Ok")

\* decrypt has succeeded on a buffer of exactly 33 bytes
C1_Witness ==
    /\ Called("decrypt")
    /\ Len(Last.key) > 0
    /\ Len(Last.data) = 33
    /\ res = "Ok"

\* C2: decrypt of a buffer B of n > 32 bytes with a non-empty key K yields
\* n - 16 bytes: B[16+i] XOR K[i mod |K|] for the first 16, B[16+i]
\* unchanged after them.
C2_DecryptResult ==
    (Called("decrypt") /\ Len(Last.key) > 0 /\ Len(Last.data) > 32) =>
        /\ res = "Ok"
        /\ Len(data) = Len(Last.data) - 16
        /\ \A i \in 1..16 :
               data[i] = ByteXor(Last.data[16 + i], KeyAt(Last.key, i))
        /\ \A i \in 17..(Len(Last.data) - 16) :
               data[i] = Last.data[16 + i]

\* the scenario of tests.rs: the obscured PNG header decrypted with KEY is
\* the PNG header, with a payload behind it
C2_Witness ==
    /\ Called("decrypt")
    /\ Last.key = KEY
    /\ Len(Last.data) = 34
    /\ res = "Ok"
    /\ SubSeq(data, 1, 16) = PNG_HEADER
    /\ SubSeq(data, 17, 18) = SubSeq(Last.data, 33, 34)

\* the last call was decrypt or encrypt with an empty key, on a buffer long
\* enough to be accepted (more than 32 bytes for decrypt, at least 16 for
\* encrypt)
EmptyKeyCall ==
    /\ Len(hist) > 0
    /\ Len(Last.key) = 0
    /\ \/ Last.op = "decrypt" /\ Len(Last.data) > 32
       \/ Last.op = "encrypt" /\ Len(Last.data) >= 16

\* C3: a call of decrypt or encrypt with an empty key is answered with an
\* InvalidKey error before any byte of the buffer is touched; it never
\* reaches the remainder by zero.
C3_EmptyKeyRejected ==
    EmptyKeyCall => (res = "InvalidKey" /\ data = Last.data)

\* C4: encrypt of a buffer B of at least 16 bytes with a non-empty key K
\* yields the magic header, then B[i] XOR K[i mod |K|] for the first 16
\* bytes of B, then the rest of B unchanged: |B| + 16 bytes.
C4_EncryptResult ==
    (Called("encrypt") /\ Len(Last.key) > 0 /\ Len(Last.data) >= 16) =>
        /\ res = "Ok"
        /\ Len(data) = Len(Last.data) + 16
        /\ SubSeq(data, 1, 16) = RPG_HEADER
        /\ \A i \in 1..16 :
               data[16 + i] = ByteXor(Last.data[i], KeyAt(Last.key, i))
        /\ \A i \in 17..Len(Last.data) :
               data[16 + i] = Last.data[i]

\* encrypt has succeeded with a key that changes bytes, on a buffer with a
\* payload behind its first 16 bytes
C4_Witness ==
    /\ Called("encrypt")
    /\ Last.key = <<1, 2, 3, 4, 5>>
    /\ Len(Last.data) > 16
    /\ res = "Ok"
    /\ SubSeq(data, 17, 32) # SubSeq(Last.data, 1, 16)

\* C5: encrypt of a buffer shorter than 16 bytes fails with the too-short
\* error value; it does not panic.
C5_EncryptTooShort ==
    (Called("encrypt") /\ Len(Last.key) > 0 /\ Len(Last.data) < 16) =>
        (res = "FileTooShort")

\* C6: encrypt of a buffer whose first 16 bytes are the magic header fails
\* with AlreadyObfuscated; it never returns a wrapped buffer.
C6_EncryptGuardsMagic ==
    (Called("encrypt") /\ Len(Last.key) > 0 /\ BeginsWith(Last.data, RPG_HEADER)) =>
        (res = "AlreadyObfuscated")

\* the last two calls on the value were o1 then o2, both with the key of
\* the second call
Pair(o1, o2) ==
    /\ Len(hist) >= 2
    /\ hist[Len(hist) - 1].op = o1
    /\ Last.op = o2
    /\ hist[Len(hist) - 1].key = Last.key
    /\ Len(Last.key) > 0

\* the buffer the first call of the pair received
PairInput == hist[Len(hist) - 1].data

\* C7 as stated: for every plain buffer that encrypt accepts, decrypt of the
\* encrypted buffer with the same non-empty key succeeds and returns the
\* plain buffer.
C7_RoundTripPlainAny ==
    Pair("encrypt", "decrypt") => (res = "Ok" /\ data = PairInput)

\* C7 amended: the same for every plain buffer of at least 17 bytes.
C7_RoundTripPlain ==
    (Pair("encrypt", "decrypt") /\ Len(PairInput) >= 17) =>
        (res = "Ok" /\ data = PairInput)

\* a plain buffer with a payload went through encrypt and decrypt with a
\* key that changes bytes
C7_Witness ==
    /\ Pair("encrypt", "decrypt")
    /\ Len(PairInput) >= 17
    /\ Last.key = <<1, 2, 3, 4, 5>>
    /\ Last.data # RPG_HEADER \o PairInput
    /\ res = "Ok"

\* C8: for every buffer of more than 32 bytes that begins with the magic
\* header, encrypt of the decrypted buffer with the same non-empty key
\* succeeds and returns the buffer.
C8_RoundTripObfuscated ==
    (Pair("decrypt", "encrypt") /\ Len(PairInput) > 32
        /\ BeginsWith(PairInput, RPG_HEADER)) =>
        (res = "Ok" /\ data = PairInput)

\* an obfuscated buffer with a payload went through decrypt and encrypt
\* with a key that changes bytes
C8_Witness ==
    /\ Pair("decrypt", "encrypt")
    /\ Len(PairInput) > 33
    /\ BeginsWith(PairInput, RPG_HEADER)
    /\ Last.key = KEY
    /\ SubSeq(Last.data, 1, 16) # SubSeq(PairInput, 17, 32)
    /\ res = "Ok"

\* C9: the 16 bytes a successful decrypt has dropped are the magic header.
C9_DecryptValidatesMagic ==
    (Called("decrypt") /\ res = "Ok") => BeginsWith(Last.data, RPG_HEADER)

\* the keys k1 and k2 XOR the same bytes into a 16-byte header
SameStream(k1, k2) == \A i \in 1..16 : KeyAt(k1, i) = KeyAt(k2, i)

\* the buffer of the last call is an obfuscated buffer of more than 32
\* bytes, decrypted with a non-empty key
WrongKeyCase ==
    /\ Called("decrypt")
    /\ Len(Last.key) > 0
    /\ Len(Last.data) > 32
    /\ BeginsWith(Last.data, RPG_HEADER)

\* C10 as stated: decrypt with a key K2 succeeds, and for every other
\* non-empty key K1 the first 16 output bytes differ from those K1 yields
\* while every later output byte is the same.
C10_WrongKeyAlwaysDiffers ==
    WrongKeyCase =>
        /\ res = "Ok"
        /\ \A k1 \in Keys : (Len(k1) > 0 /\ k1 # Last.key) =>
               LET r1 == decrypt(Last.data, k1)
               IN  /\ r1.res = "Ok"
                   /\ SubSeq(r1.data, 1, 16) # SubSeq(data, 1, 16)
                   /\ SubSeq(r1.data, 17, Len(r1.data)) = SubSeq(data, 17, Len(data))

\* C10 amended: decrypt with K2 succeeds, and for every other non-empty key
\* K1 the first 16 output bytes differ from those K1 yields exactly when
\* the two keys, each repeated over 16 positions, differ at some position;
\* every later output byte is the same.
C10_WrongKey ==
    WrongKeyCase =>
        /\ res = "Ok"
        /\ \A k1 \in Keys : (Len(k1) > 0 /\ k1 # Last.key) =>
               LET r1 == decrypt(Last.data, k1)
               IN  /\ r1.res = "Ok"
                   /\ (SubSeq(r1.data, 1, 16) # SubSeq(data, 1, 16))
                          <=> ~SameStream(k1, Last.key)
                   /\ SubSeq(r1.data, 17, Len(r1.data)) = SubSeq(data, 17, Len(data))

\* the wrong key of tests.rs was used on an obfuscated buffer with a
\* payload, and the header it yields is not the one KEY yields
C10_Witness ==
    /\ WrongKeyCase
    /\ Last.key = <<1, 2, 3, 4, 5>>
    /\ Len(Last.data) = 34
    /\ res = "Ok"
    /\ SubSeq(data, 1, 16) # SubSeq(decrypt(Last.data, KEY).data, 1, 16)

\* C11: restore_img of an Image buffer B of n > 32 bytes succeeds with
\* n - 16 bytes: the PNG header, then B[32..n]; no buffer with the same
\* bytes from offset 32 on restores to anything else.  With n <= 32 it
\* fails with FileTooShort.
C11_RestoreImg ==
    (Called("restore_img") /\ file_type = "Image") =>
        LET n == Len(Last.data)
        IN  /\ (n <= 32) => (res = "FileTooShort")
            /\ (n > 32) =>
                /\ res = "Ok"
                /\ Len(data) = n - 16
                /\ SubSeq(data, 1, 16) = PNG_HEADER
                /\ SubSeq(data, 17, n - 16) = SubSeq(Last.data, 33, n)
                /\ \A b \in Buffers :
                       (Len(b) = n /\ SubSeq(b, 33, n) = SubSeq(Last.data, 33, n)) =>
                           restore_img(b, "Image").data = data

\* an image whose obscured header is not the PNG header was restored, with
\* a payload behind the header
C11_Witness ==
    /\ Called("restore_img")
    /\ file_type = "Image"
    /\ Len(Last.data) = 34
    /\ SubSeq(Last.data, 17, 32) # PNG_HEADER
    /\ res = "Ok"

\* ------------------------------------------------------------------------
\* Paths and classification (rpg_file.rs)
\* ------------------------------------------------------------------------

\* A path is its directory and its file name; the file name is the sequence
\* of the pieces between its dots ("a.b.png" is <<"a", "b", "png">>, ".png"
\* is <<"", "png">>, "a." is <<"a", "">>) and <<>> when the path has no file
\* name.

\* the extensions given to file names: the table of rpg_file.rs, and others
Extensions ==
    { "rpgmvo", "ogg_", "rpgmvm", "m4a_", "rpgmvp", "png_",
      "ogg", "m4a", "png",
      "txt", "RPGMVP", "Png", "rpgmv", "png__", "" }

FileNames ==
    { <<"a", e>> : e \in Extensions }
        \cup { <<"a", "b", e>> : e \in {"rpgmvp", "png", "txt"} }
        \cup { <<"", e>> : e \in {"rpgmvp", "png"} }
        \cup { <<"a">>, <<>> }

Dirs == { <<"game">>, <<"game", "img">> }

Paths == [dir : Dirs, name : FileNames]

\* Path::extension: nothing without a file name, without a dot, or when the
\* only dot starts the name; otherwise what follows the last dot
extension(p) ==
    IF Len(p.name) <= 1 THEN "None"
    ELSE IF Len(p.name) = 2 /\ p.name[1] = "" THEN "None"
    ELSE p.name[Len(p.name)]

HasExtension(p) ==
    ~ (Len(p.name) <= 1 \/ (Len(p.name) = 2 /\ p.name[1] = ""))

\* Path::file_stem, as the pieces of the name before its extension
file_stem(p) ==
    IF HasExtension(p) THEN SubSeq(p.name, 1, Len(p.name) - 1) ELSE p.name

\* PathBuf::set_extension with a non-empty extension: no change without a
\* file name, otherwise the stem, a dot and the extension
set_extension(p, e) ==
    IF p.name = <<>> THEN p
    ELSE [p EXCEPT !.name = file_stem(p) \o <<e>>]

\* from_encrypted_path without the underscored extensions
from_encrypted_path_no_underscore(p) ==
    IF ~HasExtension(p) THEN "None"
    ELSE CASE extension(p) = "rpgmvo" -> "Audio"
           [] extension(p) = "rpgmvm" -> "Video"
           [] extension(p) = "rpgmvp" -> "Image"
           [] OTHER -> "None"

\* RpgFileType::from_encrypted_path
from_encrypted_path(p) ==
    IF ~HasExtension(p) THEN "None"
    ELSE CASE extension(p) \in {"rpgmvo", "ogg_"} -> "Audio"
           [] extension(p) \in {"rpgmvm", "m4a_"} -> "Video"
           [] extension(p) \in {"rpgmvp", "png_"} -> "Image"
           [] OTHER -> "None"

\* RpgFileType::from_decrypted_path
from_decrypted_path(p) ==
    IF ~HasExtension(p) THEN "None"
    ELSE CASE extension(p) = "png" -> "Image"
           [] extension(p) = "m4a" -> "Video"
           [] extension(p) = "ogg" -> "Audio"
           [] OTHER -> "None"

\* to_extension_decrypted with the extensions of Audio and Video exchanged
to_extension_decrypted_swapped(t) ==
    CASE t = "Audio" -> "m4a"
      [] t = "Video" -> "ogg"
      [] t = "Image" -> "png"

\* RpgFileType::to_extension_decrypted
to_extension_decrypted(t) ==
    CASE t = "Audio" -> "ogg"
      [] t = "Video" -> "m4a"
      [] t = "Image" -> "png"

\* RpgFileType::to_extension_encrypted
to_extension_encrypted(t) ==
    CASE t = "Audio" -> "rpgmvo"
      [] t = "Video" -> "rpgmvm"
      [] t = "Image" -> "rpgmvp"

\* the RpgFile a constructor returns (its data left out)
SomeFile(t, dec, enc, st) ==
    [tag |-> "Some", file_type |-> t,
     decrypted_path |-> dec, encrypted_path |-> enc, state |-> st]

\* RpgFile::from_path_encrypted; readable tells whether fs::read succeeds
from_path_encrypted(p, readable) ==
    LET t == from_encrypted_path(p)
    IN  IF t = "None" \/ ~readable THEN [tag |-> "None"]
        ELSE SomeFile(t, set_extension(p, to_extension_decrypted(t)), p, "Encrypted")

\* RpgFile::from_path_decrypted
from_path_decrypted(p, readable) ==
    LET t == from_decrypted_path(p)
    IN  IF t = "None" \/ ~readable THEN [tag |-> "None"]
        ELSE SomeFile(t, p, set_extension(p, to_extension_encrypted(t)), "Decrypted")

\* RpgFile::from_raw_parts_encrypted, the paths it sets
raw_parts_encrypted(t, orig_path) ==
    SomeFile(t, set_extension(orig_path, to_extension_decrypted(t)), orig_path, "Encrypted")

\* RpgFile::from_raw_parts_decrypted, the paths it sets
raw_parts_decrypted(t, orig_path) ==
    SomeFile(t, set_extension(orig_path, to_extension_decrypted(t)), orig_path, "Decrypted")

\* ------------------------------------------------------------------------
\* Hex strings (lib.rs)
\* ------------------------------------------------------------------------

\* A string is the sequence of its characters (all of them ASCII).

\* the digits of radix 16 in the order of their values
HexDigits ==
    <<"0", "1", "2", "3", "4", "5", "6", "7", "8", "9",
      "a", "b", "c", "d", "e", "f">>

UpperHexDigits == <<"A", "B", "C", "D", "E", "F">>

\* char::to_digit(16): the value of the digit, -1 for any other character
to_digit(c) ==
    IF \E i \in 1..16 : HexDigits[i] = c
    THEN (CHOOSE i \in 1..16 : HexDigits[i] = c) - 1
    ELSE IF \E i \in 1..6 : UpperHexDigits[i] = c
    THEN (CHOOSE i \in 1..6 : UpperHexDigits[i] = c) + 9
    ELSE -1

RECURSIVE digits_value(_, _)
\* the value of a string of digits, most significant first, read after acc
digits_value(ds, acc) ==
    IF ds = <<>> THEN acc
    ELSE digits_value(Tail(ds), 16 * acc + to_digit(Head(ds)))

\* u8::from_str_radix(src, 16): an optional leading '+', then at least one
\* digit and nothing but digits, and a value that fits a byte; -1 for Err
from_str_radix(src) ==
    LET ds == IF src # <<>> /\ Head(src) = "+" THEN Tail(src) ELSE src
    IN  IF ds = <<>> THEN -1
        ELSE IF \E i \in 1..Len(ds) : to_digit(ds[i]) = -1 THEN -1
        ELSE IF digits_value(ds, 0) > 255 THEN -1
        ELSE digits_value(ds, 0)

RECURSIVE decode_from(_, _, _)
\* the iteration of decode_hex from the 1-based position i on, with the
\* bytes collected so far: s[i..i + 2] panics when it passes the end of s,
\* and collect() stops at the first Err
decode_from(s, i, acc) ==
    IF i > Len(s) THEN [tag |-> "Ok", bytes |-> acc]
    ELSE IF i + 1 > Len(s) THEN [tag |-> "Panic"]
    ELSE LET b == from_str_radix(SubSeq(s, i, i + 1))
         IN  IF b = -1 THEN [tag |-> "Err"]
             ELSE decode_from(s, i + 2, Append(acc, b))

\* decode_hex
decode_hex(s) == decode_from(s, 1, <<>>)

\* the characters of the strings handed to decode_hex
HexChars == {"0", "1", "f", "B", "x", "+", "-", "g"}

RECURSIVE StringsOfLen(_)
StringsOfLen(n) ==
    IF n = 0 THEN { <<>> }
    ELSE { Append(t, c) : t \in StringsOfLen(n - 1), c \in HexChars }

\* every string of up to MaxHexLen characters, and the two of the
\* documentation of decode_hex
HexStrings ==
    UNION { StringsOfLen(n) : n \in 0..MaxHexLen }
        \cup { <<"0", "f", "1", "a", "2", "b">>, <<"0", "x", "0", "f", "3", "b">> }

\* the frame of every call of a library function
LibCall == UNCHANGED <<codecVars, cfgVars, batchVars>>

FromEncryptedPath(p) ==
    /\ call' = [fn |-> "from_encrypted_path", path |-> p]
    /\ ret' = [tag |-> "Type", file_type |-> from_encrypted_path(p)]
    /\ LibCall

FromDecryptedPath(p) ==
    /\ call' = [fn |-> "from_decrypted_path", path |-> p]
    /\ ret' = [tag |-> "Type", file_type |-> from_decrypted_path(p)]
    /\ LibCall

FromPathEncrypted(p, readable) ==
    /\ call' = [fn |-> "from_path_encrypted", path |-> p, readable |-> readable]
    /\ ret' = from_path_encrypted(p, readable)
    /\ LibCall

FromPathDecrypted(p, readable) ==
    /\ call' = [fn |-> "from_path_decrypted", path |-> p, readable |-> readable]
    /\ ret' = from_path_decrypted(p, readable)
    /\ LibCall

FromRawPartsEncrypted(t, p) ==
    /\ call' = [fn |-> "from_raw_parts_encrypted", path |-> p, file_type |-> t]
    /\ ret' = raw_parts_encrypted(t, p)
    /\ LibCall

FromRawPartsDecrypted(t, p) ==
    /\ call' = [fn |-> "from_raw_parts_decrypted", path |-> p, file_type |-> t]
    /\ ret' = raw_parts_decrypted(t, p)
    /\ LibCall

DecodeHex(s) ==
    /\ call' = [fn |-> "decode_hex", s |-> s]
    /\ ret' = decode_hex(s)
    /\ LibCall

InitLib == CodecIdle /\ LibIdle /\ CfgIdle /\ BatchIdle

NextLib ==
    \/ \E p \in Paths : FromEncryptedPath(p)
    \/ \E p \in Paths : FromDecryptedPath(p)
    \/ \E p \in Paths, r \in BOOLEAN : FromPathEncrypted(p, r)
    \/ \E p \in Paths, r \in BOOLEAN : FromPathDecrypted(p, r)
    \/ \E p \in Paths, t \in RpgFileType : FromRawPartsEncrypted(t, p)
    \/ \E p \in Paths, t \in RpgFileType : FromRawPartsDecrypted(t, p)
    \/ \E s \in HexStrings : DecodeHex(s)

SpecLib == InitLib /\ [][NextLib]_vars

\* the last piece of the file name of p when it is an extension
LastPiece(p) == p.name[Len(p.name)]

\* C12: from_encrypted_path answers Audio for exactly the extensions rpgmvo
\* and ogg_, Video for rpgmvm and m4a_, Image for rpgmvp and png_, and
\* nothing for any other path (a plain, differently cased or missing
\* extension); from_decrypted_path answers Audio, Video, Image for exactly
\* ogg, m4a, png.
C12_Classification ==
    /\ (call.fn = "from_encrypted_path") =>
        LET p == call.path
            t == ret.file_type
        IN  /\ (t = "Audio") <=> (HasExtension(p) /\ LastPiece(p) \in {"rpgmvo", "ogg_"})
            /\ (t = "Video") <=> (HasExtension(p) /\ LastPiece(p) \in {"rpgmvm", "m4a_"})
            /\ (t = "Image") <=> (HasExtension(p) /\ LastPiece(p) \in {"rpgmvp", "png_"})
            /\ t \in RpgFileType \cup {"None"}
            /\ (p.name \in { <<"a", "png">>, <<"a", "ogg">>, <<"a", "m4a">>,
                             <<"a", "RPGMVP">>, <<"a">>, <<"", "rpgmvp">>, <<"a", "txt">> })
                   => (t = "None")
    /\ (call.fn = "from_decrypted_path") =>
        LET p == call.path
            t == ret.file_type
        IN  /\ (t = "Audio") <=> (HasExtension(p) /\ LastPiece(p) = "ogg")
            /\ (t = "Video") <=> (HasExtension(p) /\ LastPiece(p) = "m4a")
            /\ (t = "Image") <=> (HasExtension(p) /\ LastPiece(p) = "png")
            /\ t \in RpgFileType \cup {"None"}
            /\ (p.name \in { <<"a", "png_">>, <<"a", "rpgmvp">>, <<"a", "Png">>,
                             <<"a">>, <<"", "png">>, <<"a", "txt">> })
                   => (t = "None")

\* a path with an underscored extension was classified as encrypted
C12_Witness ==
    /\ call.fn = "from_encrypted_path"
    /\ call.path.name = <<"a", "m4a_">>
    /\ ret.file_type = "Video"

\* p with its extension replaced by e
WithExtension(p, e) == [p EXCEPT !.name = SubSeq(p.name, 1, Len(p.name) - 1) \o <<e>>]

\* the plain and the obfuscated extension of each kind (table 4.1)
PlainExt(k) == CASE k = "Audio" -> "ogg" [] k = "Video" -> "m4a" [] k = "Image" -> "png"

ObfuscatedExt(k) == CASE k = "Audio" -> "rpgmvo" [] k = "Video" -> "rpgmvm" [] k = "Image" -> "rpgmvp"

\* from_path_encrypted derives, for every readable path p of kind k, p with
\* k's plain extension, which classifies as decrypted of kind k
DerivedDecrypted ==
    (call.fn = "from_path_encrypted" /\ call.readable
        /\ from_encrypted_path(call.path) # "None") =>
        LET k == from_encrypted_path(call.path)
        IN  /\ ret.tag = "Some"
            /\ ret.file_type = k
            /\ ret.encrypted_path = call.path
            /\ ret.decrypted_path = WithExtension(call.path, PlainExt(k))
            /\ from_decrypted_path(ret.decrypted_path) = k

\* from_path_decrypted derives, for every readable path q of kind k, q with
\* k's obfuscated extension, which classifies as encrypted of kind k
DerivedEncrypted ==
    (call.fn = "from_path_decrypted" /\ call.readable
        /\ from_decrypted_path(call.path) # "None") =>
        LET k == from_decrypted_path(call.path)
        IN  /\ ret.tag = "Some"
            /\ ret.file_type = k
            /\ ret.decrypted_path = call.path
            /\ ret.encrypted_path = WithExtension(call.path, ObfuscatedExt(k))
            /\ from_encrypted_path(ret.encrypted_path) = k

\* the RpgFile returned has paths that classify as encrypted and decrypted
ClassifiedPaths ==
    /\ from_encrypted_path(ret.encrypted_path) # "None"
    /\ from_decrypted_path(ret.decrypted_path) # "None"

Constructors ==
    { "from_path_encrypted", "from_path_decrypted",
      "from_raw_parts_encrypted", "from_raw_parts_decrypted" }

\* C13 as stated: both derivations are total and keep the kind, and the
\* RpgFile built by any constructor has an encrypted_path that classifies
\* as encrypted and a decrypted_path that classifies as decrypted.
C13_AnyConstructorClassified ==
    /\ DerivedDecrypted
    /\ DerivedEncrypted
    /\ (call.fn \in Constructors /\ ret.tag = "Some") => ClassifiedPaths

\* C13 amended: both derivations are total and keep the kind; the RpgFile
\* built by from_path_encrypted or from_path_decrypted has paths that
\* classify as encrypted and decrypted; the from_raw_parts constructors keep
\* orig_path as encrypted_path unchecked and derive decrypted_path from it
\* with the plain extension of the given type.
C13_PathDerivation ==
    /\ DerivedDecrypted
    /\ DerivedEncrypted
    /\ (call.fn \in {"from_path_encrypted", "from_path_decrypted"} /\ ret.tag = "Some")
           => ClassifiedPaths
    /\ (call.fn \in {"from_raw_parts_encrypted", "from_raw_parts_decrypted"}) =>
           /\ ret.tag = "Some"
           /\ ret.encrypted_path = call.path
           /\ ret.decrypted_path = set_extension(call.path, PlainExt(call.file_type))
           /\ (call.path.name # <<>>) =>
                  from_decrypted_path(ret.decrypted_path) = call.file_type

\* an audio file with two dots in its name was built from its encrypted
\* path
C13_Witness ==
    /\ call.fn = "from_path_encrypted"
    /\ call.path.name = <<"a", "ogg_">>
    /\ ret.tag = "Some"
    /\ ret.decrypted_path.name = <<"a", "ogg">>

\* the characters 0-9, a-f, A-F
IsHexDigit(c) ==
    c \in { "0", "1", "2", "3", "4", "5", "6", "7", "8", "9",
            "a", "b", "c", "d", "e", "f", "A", "B", "C", "D", "E", "F" }

\* C14: decode_hex of an even-length string of hex digits returns len/2
\* bytes, byte i the value of the characters 2i and 2i+1; for every string
\* of odd length and every string with a character that is not a hex digit
\* it returns a decode error: it never panics and never succeeds.
C14_DecodeHexTotal ==
    (call.fn = "decode_hex") =>
        LET s == call.s
        IN  IF Len(s) % 2 = 0 /\ \A i \in 1..Len(s) : IsHexDigit(s[i])
            THEN /\ ret.tag = "Ok"
                 /\ Len(ret.bytes) = Len(s) \div 2
                 /\ \A i \in 1..(Len(s) \div 2) :
                        ret.bytes[i] = 16 * to_digit(s[2 * i - 1]) + to_digit(s[2 * i])
            ELSE ret.tag = "Err"

(***************************************************************************)
(* The configuration document System.json                                  *)
(***************************************************************************)

\* the text of a JSON object: "{", the members in the order written, "}"
Member(f, v) == [name |-> f, value |-> v]

OpenBrace == Member("{", Absent)

CloseBrace == Member("}", Absent)

\* serde_json's map is ordered by key: the order Value::to_string writes
MemberOrder == <<"encryptionKey", "gameTitle", "hasEncryptedAudio", "hasEncryptedImages">>

RECURSIVE members_from(_, _)
members_from(doc, i) ==
    IF i > Len(MemberOrder) THEN <<>>
    ELSE LET f == MemberOrder[i] IN
         (IF doc[f].kind = "absent" THEN <<>> ELSE <<Member(f, doc[f])>>)
             \o members_from(doc, i + 1)

\* Value::to_string: the members present, in key order
to_string(doc) == <<OpenBrace>> \o members_from(doc, 1) \o <<CloseBrace>>

\* serde_json::from_str accepts a text that is one object
valid_json(text) ==
    /\ Len(text) >= 2
    /\ text[1] = OpenBrace
    /\ text[Len(text)] = CloseBrace
    /\ \A i \in 2..(Len(text) - 1) : text[i].name \in Fields /\ text[i].value.kind # "absent"

\* serde_json::from_str on a valid text: each field has the value of its
\* last member
from_str(text) ==
    [f \in Fields |->
        LET at == {i \in 2..(Len(text) - 1) : text[i].name = f} IN
        IF at = {} THEN Absent
        ELSE text[CHOOSE i \in at : \A j \in at : j <= i].value]

Ok(v) == [tag |-> "Ok", val |-> v]

Err(e) == [tag |-> "Err", err |-> e]

\* a variant of check_encrypted that lets a flag of another type count as false
check_encrypted_lenient(value) ==
    LET get_key(key) == value[key].kind = "bool" /\ value[key].s = <<"true">>
    IN Ok(get_key("hasEncryptedAudio") \/ get_key("hasEncryptedImages"))

\* RpgGame::check_encrypted
check_encrypted(value) ==
    LET get_key(key) ==
            LET v == IF value[key].kind = "absent" THEN JBool(FALSE) ELSE value[key]
            IN IF v.kind = "bool" THEN Ok(v.s = <<"true">>) ELSE Err("SystemJsonInvalidKey")
        audio == get_key("hasEncryptedAudio")
        img == get_key("hasEncryptedImages")
    IN IF audio.tag = "Err" THEN audio
       ELSE IF img.tag = "Err" THEN img
       ELSE Ok(audio.val \/ img.val)

\* RpgGame::try_get_key
try_get_key(json) ==
    LET v == json["encryptionKey"] IN
    IF v.kind = "absent" THEN Err("NotEncrypted")
    ELSE IF v.kind # "string" THEN Err("SystemJsonInvalidKey")
    ELSE LET d == decode_hex(v.s) IN
         IF d.tag = "Panic" THEN [tag |-> "Panic"]
         ELSE IF d.tag = "Err" THEN Err("KeyParseError")
         ELSE Ok([bytes |-> d.bytes, key |-> v.s])

\* the candidate files that exist, in the order of SYS_JSON_PATHS
existing(dsk) == {i \in 1..2 : dsk[i].exists}

\* a variant of get_system_json that takes the last existing candidate
get_system_json_last(dsk) ==
    IF existing(dsk) = {} THEN Err("SystemJsonNotFound")
    ELSE LET i == CHOOSE j \in existing(dsk) : \A k \in existing(dsk) : k <= j IN
         IF ~valid_json(dsk[i].text) THEN Err("SystemJsonInvalidJson")
         ELSE LET v == from_str(dsk[i].text)
                  e == check_encrypted(v) IN
              IF e.tag = "Err" THEN e
              ELSE Ok([loaded |-> TRUE, path |-> i, data |-> v, encrypted |-> e.val])

\* RpgGame::get_system_json
get_system_json(dsk) ==
    IF existing(dsk) = {} THEN Err("SystemJsonNotFound")
    ELSE LET i == CHOOSE j \in existing(dsk) : \A k \in existing(dsk) : j <= k IN
         IF ~valid_json(dsk[i].text) THEN Err("SystemJsonInvalidJson")
         ELSE LET v == from_str(dsk[i].text)
                  e == check_encrypted(v) IN
              IF e.tag = "Err" THEN e
              ELSE Ok([loaded |-> TRUE, path |-> i, data |-> v, encrypted |-> e.val])

\* SystemJson::set_decrypt's inner set_key: the flag is set in the data; a
\* flag that is not in the data is an error
set_key(json, key, encrypted) ==
    IF json[key].kind = "absent" THEN Err("SystemJsonKeyNotFound")
    ELSE Ok([json EXCEPT ![key] = JBool(encrypted)])

\* a variant of set_decrypt that sets only the audio flag
set_decrypt_audio_only(sj, encrypted) ==
    LET audio == set_key(sj.data, "hasEncryptedAudio", encrypted) IN
    IF audio.tag = "Err" THEN [tag |-> "Err", err |-> audio.err, val |-> sj]
    ELSE LET img == set_key(audio.val, "hasEncryptedImages", sj.data["hasEncryptedImages"].s = <<"true">>) IN
         IF img.tag = "Err"
         THEN [tag |-> "Err", err |-> img.err, val |-> [sj EXCEPT !.data = audio.val]]
         ELSE [tag |-> "Ok", err |-> "",
               val |-> [sj EXCEPT !.data = img.val, !.encrypted = encrypted]]

\* SystemJson::set_decrypt: the audio flag, then the image flag, then the
\* encrypted field; the first error returns with what was set so far
set_decrypt(sj, encrypted) ==
    LET audio == set_key(sj.data, "hasEncryptedAudio", encrypted) IN
    IF audio.tag = "Err" THEN [tag |-> "Err", err |-> audio.err, val |-> sj]
    ELSE LET img == set_key(audio.val, "hasEncryptedImages", encrypted) IN
         IF img.tag = "Err"
         THEN [tag |-> "Err", err |-> img.err, val |-> [sj EXCEPT !.data = audio.val]]
         ELSE [tag |-> "Ok", err |-> "",
               val |-> [sj EXCEPT !.data = img.val, !.encrypted = encrypted]]

\* the documents a game may ship: the flags, the key and a title
FlagValues == {Absent, JBool(TRUE), JBool(FALSE), JString(<<"1">>)}

KeyValues ==
    {Absent, JString(<<"0", "f", "1", "B">>), JString(<<"0", "x">>),
     JString(<<"0", "f", "1">>), JNumber(<<"1">>)}

TitleValues == {Absent, JString(<<"g">>)}

Docs ==
    {[f \in Fields |->
        CASE f = "hasEncryptedAudio" -> a
          [] f = "hasEncryptedImages" -> i
          [] f = "encryptionKey" -> k
          [] f = "gameTitle" -> t] :
      a \in FlagValues, i \in FlagValues, k \in KeyValues, t \in TitleValues}

\* a game's file as written by its editor: the members in another order
\* than serde_json's
shipped_text(doc) ==
    <<OpenBrace>>
        \o (IF doc["hasEncryptedImages"].kind = "absent" THEN <<>>
            ELSE <<Member("hasEncryptedImages", doc["hasEncryptedImages"])>>)
        \o (IF doc["hasEncryptedAudio"].kind = "absent" THEN <<>>
            ELSE <<Member("hasEncryptedAudio", doc["hasEncryptedAudio"])>>)
        \o (IF doc["gameTitle"].kind = "absent" THEN <<>>
            ELSE <<Member("gameTitle", doc["gameTitle"])>>)
        \o (IF doc["encryptionKey"].kind = "absent" THEN <<>>
            ELSE <<Member("encryptionKey", doc["encryptionKey"])>>)
        \o <<CloseBrace>>

\* texts that are not JSON
InvalidTexts == {<<>>, <<OpenBrace>>}

NoFile == [exists |-> FALSE, text |-> <<>>]

File(text) == [exists |-> TRUE, text |-> text]

\* www/data/System.json holds any shipped document or is broken or absent;
\* data/System.json holds one fixed document or is broken or absent
Candidates1 == {NoFile} \cup {File(shipped_text(d)) : d \in Docs} \cup {File(t) : t \in InvalidTexts}

Candidates2 ==
    {NoFile, File(<<OpenBrace>>),
     File(shipped_text([EmptyDoc EXCEPT !["hasEncryptedAudio"] = JBool(TRUE),
                                        !["hasEncryptedImages"] = JBool(TRUE),
                                        !["encryptionKey"] = JString(<<"1", "1">>)]))}

NotLoaded == [loaded |-> FALSE, path |-> 0, data |-> EmptyDoc, encrypted |-> FALSE]

\* what a later call remembers of the call before it
Summary ==
    IF call.fn = "write"
    THEN [fn |-> "write", v |-> call.v, io_ok |-> call.io_ok, before |-> call.before,
          ok |-> ret.tag = "Ok"]
    ELSE [fn |-> call.fn, v |-> FALSE, io_ok |-> FALSE, before |-> EmptyDoc, ok |-> FALSE]

CfgCall == UNCHANGED <<codecVars, batchVars>>

\* RpgGame::new up to the loading of the document; also a reload
GetSystemJson ==
    LET r == get_system_json(disk) IN
    /\ call' = [fn |-> "get_system_json", prev |-> Summary]
    /\ ret' = IF r.tag = "Ok" THEN [tag |-> "Ok"] ELSE r
    /\ system_json' = IF r.tag = "Ok" THEN r.val ELSE NotLoaded
    /\ UNCHANGED disk
    /\ CfgCall

\* the key of the loaded document (RpgGame::new, RpgGame::get_key)
TryGetKey ==
    /\ system_json.loaded
    /\ call' = [fn |-> "try_get_key"]
    /\ ret' = try_get_key(system_json.data)
    /\ UNCHANGED cfgVars
    /\ CfgCall

\* system_json.encrypted = v; system_json.write(): set_decrypt on the data,
\* then fs::write of the data's text to the path it was loaded from
Write(v, io_ok) ==
    LET r == set_decrypt(system_json, v) IN
    /\ system_json.loaded
    /\ call' = [fn |-> "write", v |-> v, io_ok |-> io_ok, before |-> system_json.data]
    /\ system_json' = [r.val EXCEPT !.encrypted = v]
    /\ IF r.tag = "Err"
       THEN /\ ret' = Err(r.err)
            /\ UNCHANGED disk
       ELSE /\ IF io_ok
               THEN /\ disk' = [disk EXCEPT ![system_json.path] = File(to_string(r.val.data))]
                    /\ ret' = [tag |-> "Ok"]
               ELSE /\ UNCHANGED disk
                    /\ ret' = Err("IoError")
    /\ CfgCall

InitCfg ==
    /\ CodecIdle
    /\ LibIdle
    /\ disk \in [1..2 -> Candidates1 \cup Candidates2]
    /\ disk[1] \in Candidates1
    /\ disk[2] \in Candidates2
    /\ system_json = NotLoaded
    /\ BatchIdle

NextCfg ==
    \/ GetSystemJson
    \/ TryGetKey
    \/ \E v \in BOOLEAN, io_ok \in BOOLEAN : Write(v, io_ok)

SpecCfg == InitCfg /\ [][NextCfg]_vars

(***************************************************************************)
(* The batch operations of a game                                          *)
(***************************************************************************)

\* enum OutputSettings
OutputSettings == {"NextTo", "Replace", "Output", "Flatten"}

\* the encryptionKey string of the game of tests.rs: KEY in hex
KEY_STR == [i \in 1..32 |-> IF i % 2 = 1 THEN "0" ELSE "f"]

\* the System.json of a game a batch runs on: with both flags, and with the
\* key only
BatchDocs ==
    {[EmptyDoc EXCEPT !["encryptionKey"] = JString(KEY_STR),
                      !["hasEncryptedAudio"] = JBool(TRUE),
                      !["hasEncryptedImages"] = JBool(TRUE)],
     [EmptyDoc EXCEPT !["encryptionKey"] = JString(KEY_STR)]}

\* a plain asset, the same asset obfuscated with KEY, and an asset of 3 bytes
PlainFull == PNG_HEADER \o <<1>>

EncFull == encrypt(PlainFull, KEY).data

ShortBytes == <<1, 2, 3>>

\* what one asset may be when a batch starts: nothing, an obfuscated file
\* (whole, too short, or unreadable), or a plain file (whole or too short)
AssetProfiles ==
    {[enc |-> Missing, dec |-> Missing, out |-> Missing, readable |-> TRUE],
     [enc |-> Stored(EncFull), dec |-> Missing, out |-> Missing, readable |-> TRUE],
     [enc |-> Stored(ShortBytes), dec |-> Missing, out |-> Missing, readable |-> TRUE],
     [enc |-> Stored(EncFull), dec |-> Missing, out |-> Missing, readable |-> FALSE],
     [enc |-> Missing, dec |-> Stored(PlainFull), out |-> Missing, readable |-> TRUE],
     [enc |-> Missing, dec |-> Stored(ShortBytes), out |-> Missing, readable |-> TRUE]}

\* scan_files: the entries whose name classifies as obfuscated
scan_files(as) == {i \in Assets : as[i].enc.exists}

\* the entries decrypt_all's walk hands to from_path_encrypted, and
\* encrypt_all's walk to from_path_decrypted
Candidates(op, as) ==
    IF op = "decrypt_all" THEN {i \in Assets : as[i].enc.exists}
    ELSE {i \in Assets : as[i].dec.exists}

\* a variant of collected that does not wait for the closures
collected_no_join(w) == TRUE

\* .collect::<Vec<_>>(): every closure of the parallel iterator has returned
collected(w) == \A i \in Assets : w[i].pc \in {"none", "done"}

\* the results collect gathers: one per file that from_path_* returned
results(w) == [i \in {j \in Assets : w[j].result # "none"} |-> w[i].result]

BatchCall == UNCHANGED <<codecVars, key_bytes, verbose>>

\* RpgGame::scan_files called by the user before a batch
ScanFiles ==
    /\ batch.pc = "idle"
    /\ num_files' = [tag |-> "Some", n |-> Cardinality(scan_files(assets))]
    /\ call' = [fn |-> "scan_files"]
    /\ ret' = [tag |-> "Ok"]
    /\ UNCHANGED <<cfgVars, assets, batch, worker, num_decrypted, out_dir>>
    /\ BatchCall

\* the head of decrypt_all and encrypt_all: unwrap_or evaluates its argument,
\* so scan_files runs and sets the cache whether or not a count was cached
StartBatch(op, output) ==
    LET n == Cardinality(scan_files(assets)) IN
    /\ batch' = [op |-> op, output |-> output, pc |-> "files", scans |-> 1, persists |-> 0,
                 num_files |-> IF num_files.tag = "Some" THEN num_files.n ELSE n,
                 cached |-> num_files.tag = "Some", dir_existed |-> out_dir]
    /\ num_files' = [tag |-> "Some", n |-> n]
    /\ worker' = [i \in Assets |->
                    IF i \in Candidates(op, assets) THEN [NoWorker EXCEPT !.pc = "todo"]
                    ELSE NoWorker]
    /\ num_decrypted' = 0
    /\ call' = [fn |-> op, output |-> output]
    /\ ret' = [tag |-> "none"]
    /\ UNCHANGED <<cfgVars, assets, out_dir>>
    /\ BatchCall

\* RpgGame::decrypt_all is called
DecryptAll(output) ==
    /\ batch.pc = "idle"
    /\ StartBatch("decrypt_all", output)

\* RpgGame::encrypt_all is called
EncryptAll ==
    /\ batch.pc = "idle"
    /\ StartBatch("encrypt_all", "none")

\* one closure of decrypt_all up to num_decrypted.fetch_add:
\* from_path_encrypted, file.decrypt, create_path_from_output
DecryptFile(i, path_ok) ==
    /\ batch.pc = "files"
    /\ batch.op = "decrypt_all"
    /\ worker[i].pc = "todo"
    /\ IF ~assets[i].readable
       THEN \* fs::read failed: filter_map drops the entry
            /\ worker' = [worker EXCEPT ![i].pc = "done"]
            /\ UNCHANGED <<assets, out_dir>>
       ELSE LET r == decrypt(assets[i].enc.bytes, key_bytes) IN
            IF r.res = "Panic"
            THEN /\ worker' = [worker EXCEPT ![i].pc = "panicked"]
                 /\ UNCHANGED <<assets, out_dir>>
            ELSE IF r.res # "Ok"
            THEN /\ worker' = [worker EXCEPT ![i].pc = "done", ![i].result = r.res]
                 /\ UNCHANGED <<assets, out_dir>>
            ELSE IF batch.output = "NextTo"
            THEN /\ path_ok
                 /\ worker' = [worker EXCEPT ![i].pc = "count", ![i].data = r.data]
                 /\ UNCHANGED <<assets, out_dir>>
            ELSE IF ~path_ok
            THEN \* fs::remove_file or fs::create_dir_all failed
                 /\ worker' = [worker EXCEPT ![i].pc = "done", ![i].result = "IoError"]
                 /\ UNCHANGED <<assets, out_dir>>
            ELSE /\ worker' = [worker EXCEPT ![i].pc = "count", ![i].data = r.data]
                 /\ IF batch.output = "Replace"
                    THEN /\ assets' = [assets EXCEPT ![i].enc = Missing]
                         /\ UNCHANGED out_dir
                    ELSE \* fs::create_dir_all
                         /\ out_dir' = TRUE
                         /\ UNCHANGED assets
    /\ UNCHANGED <<libVars, cfgVars, num_files, batch, num_decrypted>>
    /\ BatchCall

\* num_decrypted.fetch_add(1, SeqCst)
CountFile(i) ==
    /\ batch.pc = "files"
    /\ worker[i].pc = "count"
    /\ num_decrypted' = num_decrypted + 1
    /\ worker' = [worker EXCEPT ![i].pc = IF verbose THEN "print" ELSE "write"]
    /\ UNCHANGED <<libVars, cfgVars, num_files, assets, batch, out_dir>>
    /\ BatchCall

\* print_progress(num_files, num_decrypted.load(SeqCst), ..)
PrintProgress(i) ==
    /\ batch.pc = "files"
    /\ worker[i].pc = "print"
    /\ worker' = [worker EXCEPT ![i].pc = "write", ![i].index = num_decrypted]
    /\ UNCHANGED <<libVars, cfgVars, num_files, assets, batch, num_decrypted, out_dir>>
    /\ BatchCall

\* fs::write(&new_path, file.data()) and the closure's return
WriteFile(i, io_ok) ==
    /\ batch.pc = "files"
    /\ worker[i].pc = "write"
    /\ IF io_ok
       THEN /\ assets' = IF batch.op = "encrypt_all"
                         THEN [assets EXCEPT ![i].enc = Stored(worker[i].data)]
                         ELSE IF batch.output \in {"NextTo", "Replace"}
                         THEN [assets EXCEPT ![i].dec = Stored(worker[i].data)]
                         ELSE [assets EXCEPT ![i].out = Stored(worker[i].data)]
            /\ worker' = [worker EXCEPT ![i].pc = "done", ![i].result = "Ok"]
       ELSE /\ UNCHANGED assets
            /\ worker' = [worker EXCEPT ![i].pc = "done", ![i].result = "IoError"]
    /\ UNCHANGED <<libVars, cfgVars, num_files, batch, num_decrypted, out_dir>>
    /\ BatchCall

\* one closure of encrypt_all up to fs::write: from_path_decrypted,
\* file.encrypt
EncryptFile(i) ==
    /\ batch.pc = "files"
    /\ batch.op = "encrypt_all"
    /\ worker[i].pc = "todo"
    /\ IF ~assets[i].readable
       THEN worker' = [worker EXCEPT ![i].pc = "done"]
       ELSE LET r == encrypt(assets[i].dec.bytes, key_bytes) IN
            IF r.res = "Panic"
            THEN worker' = [worker EXCEPT ![i].pc = "panicked"]
            ELSE worker' = [worker EXCEPT ![i].pc = "write", ![i].data = r.data]
    /\ UNCHANGED <<libVars, cfgVars, num_files, assets, batch, num_decrypted, out_dir>>
    /\ BatchCall

\* a panic in a closure unwinds out of the batch call: nothing is returned
\* and the other closures are wherever they were
Unwind ==
    /\ batch.pc = "files"
    /\ \E i \in Assets : worker[i].pc = "panicked"
    /\ batch' = [batch EXCEPT !.pc = "panicked"]
    /\ ret' = [tag |-> "Panic"]
    /\ UNCHANGED <<call, cfgVars, num_files, assets, worker, num_decrypted, out_dir>>
    /\ BatchCall

\* the tail of decrypt_all and encrypt_all after collect: the flags are set
\* and System.json is written if the batch was encrypt_all or in place
Finish(io_ok) ==
    /\ batch.pc = "files"
    /\ collected(worker)
    /\ \A i \in Assets : worker[i].pc # "panicked"
    /\ IF batch.op = "encrypt_all" \/ batch.output = "Replace"
       THEN LET v == (batch.op = "encrypt_all")
                r == set_decrypt(system_json, v) IN
            /\ system_json' = [r.val EXCEPT !.encrypted = v]
            /\ batch' = [batch EXCEPT !.pc = "returned", !.persists = @ + 1]
            /\ IF r.tag = "Err"
               THEN /\ ret' = Err(r.err)
                    /\ UNCHANGED disk
               ELSE IF io_ok
               THEN /\ disk' = [disk EXCEPT ![system_json.path] = File(to_string(r.val.data))]
                    /\ ret' = Ok(results(worker))
               ELSE /\ UNCHANGED disk
                    /\ ret' = Err("IoError")
       ELSE /\ io_ok
            /\ batch' = [batch EXCEPT !.pc = "returned"]
            /\ ret' = Ok(results(worker))
            /\ UNCHANGED cfgVars
    /\ UNCHANGED <<call, num_files, assets, worker, num_decrypted, out_dir>>
    /\ BatchCall

\* RpgGame::new on a game directory, then the batch
InitBatch ==
    /\ CodecIdle
    /\ LibIdle
    /\ \E d \in BatchDocs :
          /\ disk = [i \in 1..2 |-> IF i = 1 THEN File(shipped_text(d)) ELSE NoFile]
          /\ system_json = get_system_json(disk).val
          /\ key_bytes = try_get_key(system_json.data).val.bytes
    /\ verbose \in BOOLEAN
    /\ num_files = [tag |-> "None", n |-> 0]
    /\ assets \in [Assets -> AssetProfiles]
    /\ batch = NoBatch
    /\ worker = [i \in Assets |-> NoWorker]
    /\ num_decrypted = 0
    /\ out_dir \in BOOLEAN

NextBatch ==
    \/ ScanFiles
    \/ \E output \in OutputSettings : DecryptAll(output)
    \/ EncryptAll
    \/ \E i \in Assets, path_ok \in BOOLEAN : DecryptFile(i, path_ok)
    \/ \E i \in Assets : CountFile(i)
    \/ \E i \in Assets : PrintProgress(i)
    \/ \E i \in Assets, io_ok \in BOOLEAN : WriteFile(i, io_ok)
    \/ \E i \in Assets : EncryptFile(i)
    \/ Unwind
    \/ \E io_ok \in BOOLEAN : Finish(io_ok)

SpecBatch == InitBatch /\ [][NextBatch]_vars

(***************************************************************************)
(* The sequential library version (src/src/librpgmaker.rs)                 *)
(***************************************************************************)

\* enum OutputSettings of the sequential version
SeqOutputSettings == {"InPlace", "Overwrite", "Specific", "Flatten"}

\* RpgFile::decrypt of the sequential version: the slices &self.data[16..]
\* and &file[..16] panic on a buffer shorter than 32 bytes, xor panics on an
\* empty key; there is no error return
decrypt_v1(d, k) ==
    IF Len(d) < MinLen THEN [res |-> "Panic", data |-> d]
    ELSE LET file == SubSeq(d, HeaderLen + 1, Len(d))
             x == rpg_xor(SubSeq(file, 1, HeaderLen), k)
         IN  IF x.panic THEN [res |-> "Panic", data |-> d]
             ELSE [res |-> "Ok", data |-> x.data \o SubSeq(file, HeaderLen + 1, Len(file))]

\* dir.exists() as evaluated in the loop body, for each file
dir_exists(b, dir) == dir

\* the document of a game the sequential version opens: its check_encrypted
\* wants both flags
SeqDocs ==
    {d \in BatchDocs :
        d["hasEncryptedAudio"] # Absent /\ d["hasEncryptedImages"] # Absent}

\* RpgGame::decrypt_all of the sequential version is called
SeqDecryptAll(output) ==
    /\ batch.pc = "idle"
    /\ batch' = [op |-> "decrypt_all_seq", output |-> output, pc |-> "files", scans |-> 0,
                 persists |-> 0,
                 num_files |-> IF num_files.tag = "Some" THEN num_files.n ELSE 0,
                 cached |-> num_files.tag = "Some", dir_existed |-> out_dir]
    /\ worker' = [i \in Assets |->
                    IF assets[i].enc.exists THEN [NoWorker EXCEPT !.pc = "todo"] ELSE NoWorker]
    /\ num_decrypted' = 0
    /\ call' = [fn |-> "decrypt_all_seq", output |-> output]
    /\ ret' = [tag |-> "none"]
    /\ UNCHANGED <<cfgVars, num_files, assets, out_dir>>
    /\ BatchCall

\* one turn of the loop `for file in files`: from_path, the count and its
\* print, decrypt, the match on output, fs::write; an error returns from
\* decrypt_all, a panic unwinds out of it
SeqFile(i, path_ok, io_ok) ==
    /\ batch.pc = "files"
    /\ batch.op = "decrypt_all_seq"
    /\ worker[i].pc = "todo"
    /\ IF ~assets[i].readable
       THEN \* fs::read failed: filter_map drops the entry
            /\ worker' = [worker EXCEPT ![i].pc = "done"]
            /\ UNCHANGED <<ret, cfgVars, assets, batch, num_decrypted, out_dir>>
       ELSE LET r == decrypt_v1(assets[i].enc.bytes, key_bytes)
                counted == [worker EXCEPT ![i].index = IF verbose THEN num_decrypted + 1 ELSE 0]
            IN
            /\ num_decrypted' = num_decrypted + 1
            /\ IF r.res = "Panic"
               THEN /\ worker' = [counted EXCEPT ![i].pc = "panicked"]
                    /\ batch' = [batch EXCEPT !.pc = "panicked"]
                    /\ ret' = [tag |-> "Panic"]
                    /\ UNCHANGED <<cfgVars, assets, out_dir>>
               ELSE IF batch.output \in {"Specific", "Flatten"} /\ dir_exists(batch, out_dir)
               THEN /\ worker' = [counted EXCEPT ![i].pc = "done", ![i].result = "OutputDirExists"]
                    /\ batch' = [batch EXCEPT !.pc = "returned"]
                    /\ ret' = Err("OutputDirExists")
                    /\ UNCHANGED <<cfgVars, assets, out_dir>>
               ELSE /\ system_json' = IF batch.output = "Overwrite"
                                      THEN [system_json EXCEPT !.encrypted = FALSE]
                                      ELSE system_json
                    /\ UNCHANGED disk
                    /\ IF ~path_ok /\ batch.output # "InPlace"
                       THEN \* fs::remove_file or fs::create_dir_all failed
                            /\ worker' = [counted EXCEPT ![i].pc = "done", ![i].result = "IoError"]
                            /\ batch' = [batch EXCEPT !.pc = "returned"]
                            /\ ret' = Err("IoError")
                            /\ UNCHANGED <<assets, out_dir>>
                       ELSE LET removed == IF batch.output = "Overwrite"
                                           THEN [assets EXCEPT ![i].enc = Missing]
                                           ELSE assets
                            IN
                            /\ out_dir' = IF batch.output \in {"Specific", "Flatten"}
                                          THEN TRUE ELSE out_dir
                            /\ IF io_ok
                               THEN /\ assets' = IF batch.output \in {"InPlace", "Overwrite"}
                                                 THEN [removed EXCEPT ![i].dec = Stored(r.data)]
                                                 ELSE [removed EXCEPT ![i].out = Stored(r.data)]
                                    /\ worker' = [counted EXCEPT ![i].pc = "done", ![i].result = "Ok"]
                                    /\ UNCHANGED <<ret, batch>>
                               ELSE /\ assets' = removed
                                    /\ worker' = [counted EXCEPT ![i].pc = "done", ![i].result = "IoError"]
                                    /\ batch' = [batch EXCEPT !.pc = "returned"]
                                    /\ ret' = Err("IoError")
    /\ UNCHANGED <<call, num_files>>
    /\ BatchCall

\* the tail of the sequential decrypt_all: self.system_json.write() in every
\* output mode, then Ok(num_decrypted)
SeqFinish(io_ok) ==
    LET r == set_decrypt(system_json, system_json.encrypted) IN
    /\ batch.pc = "files"
    /\ batch.op = "decrypt_all_seq"
    /\ collected(worker)
    /\ system_json' = r.val
    /\ batch' = [batch EXCEPT !.pc = "returned", !.persists = @ + 1]
    /\ IF r.tag = "Err"
       THEN /\ ret' = Err(r.err)
            /\ UNCHANGED disk
       ELSE IF io_ok
       THEN /\ disk' = [disk EXCEPT ![system_json.path] = File(to_string(r.val.data))]
            /\ ret' = Ok(num_decrypted)
       ELSE /\ UNCHANGED disk
            /\ ret' = Err("IoError")
    /\ UNCHANGED <<call, num_files, assets, worker, num_decrypted, out_dir>>
    /\ BatchCall

\* RpgGame::new of the sequential version on a game directory
InitSeq ==
    /\ CodecIdle
    /\ LibIdle
    /\ \E d \in SeqDocs :
          /\ disk = [i \in 1..2 |-> IF i = 1 THEN File(shipped_text(d)) ELSE NoFile]
          /\ system_json = get_system_json(disk).val
          /\ key_bytes = try_get_key(system_json.data).val.bytes
    /\ verbose \in BOOLEAN
    /\ num_files = [tag |-> "None", n |-> 0]
    /\ assets \in [Assets -> AssetProfiles]
    /\ batch = NoBatch
    /\ worker = [i \in Assets |-> NoWorker]
    /\ num_decrypted = 0
    /\ out_dir \in BOOLEAN

NextSeq ==
    \/ ScanFiles
    \/ \E output \in SeqOutputSettings : SeqDecryptAll(output)
    \/ \E i \in Assets, path_ok \in BOOLEAN, io_ok \in BOOLEAN : SeqFile(i, path_ok, io_ok)
    \/ \E io_ok \in BOOLEAN : SeqFinish(io_ok)

SpecSeq == InitSeq /\ [][NextSeq]_vars

(***************************************************************************)
(* Output paths                                                            *)
(***************************************************************************)

\* the game root and the directory of Output { dir } / Flatten { dir }
GameRoot == <<"game">>

OutputDir == <<"output_dir">>

\* directories under the game root, and one that is not
SourceDirs ==
    { <<"game">>, <<"game", "www", "img">>, <<"game", "img">>, <<"game", "img_b">>,
      <<"other">> }

SourceNames ==
    { <<"test", "rpgmvp">>, <<"a", "rpgmvp">>, <<"a", "png_">>, <<"b_c", "rpgmvp">>,
      <<"c", "rpgmvp">>, <<"a", "b", "rpgmvo">>, <<"a", "txt">> }

\* the entries a walk of the game directory may yield
SourcePaths == [dir : SourceDirs, name : SourceNames]

\* Path::strip_prefix: the path relative to base, when base is a prefix of it
is_prefix(base, p) ==
    Len(base) <= Len(p.dir) /\ SubSeq(p.dir, 1, Len(base)) = base

strip_prefix(p, base) == [p EXCEPT !.dir = SubSeq(p.dir, Len(base) + 1, Len(p.dir))]

\* PathBuf::join with a relative path
join(dir, rel) == [rel EXCEPT !.dir = dir \o rel.dir]

\* to_string_lossy().replace(MAIN_SEPARATOR, "_") on the directory part of a
\* relative path and the first piece of its file name
RECURSIVE replace_separator(_, _)
replace_separator(components, first) ==
    IF components = <<>> THEN first
    ELSE Head(components) \o "_" \o replace_separator(Tail(components), first)

\* the Flatten arm: the relative path as one file name
flatten(rel) ==
    [dir |-> <<>>,
     name |-> <<replace_separator(rel.dir, Head(rel.name))>> \o Tail(rel.name)]

\* a variant of create_path_from_output whose Flatten keeps the directories
create_path_from_output_unflattened(output, file, game_path, fs_ok) ==
    LET d == file.decrypted_path IN
    CASE output \in {"NextTo", "Replace"} ->
             IF output = "Replace" /\ ~fs_ok THEN Err("IoError") ELSE Ok(d)
      [] output = "Output" ->
             IF ~is_prefix(game_path, d) THEN Err("StripPrefixError")
             ELSE IF ~fs_ok THEN Err("IoError")
             ELSE Ok(join(OutputDir, strip_prefix(d, game_path)))
      [] output = "Flatten" ->
             IF ~fs_ok THEN Err("IoError")
             ELSE IF ~is_prefix(game_path, d) THEN [tag |-> "Panic"]
             ELSE Ok(join(OutputDir, strip_prefix(d, game_path)))

\* create_path_from_output; fs_ok tells whether fs::remove_file or
\* fs::create_dir_all succeeds
create_path_from_output(output, file, game_path, fs_ok) ==
    LET d == file.decrypted_path IN
    CASE output \in {"NextTo", "Replace"} ->
             IF output = "Replace" /\ ~fs_ok THEN Err("IoError") ELSE Ok(d)
      [] output = "Output" ->
             IF ~is_prefix(game_path, d) THEN Err("StripPrefixError")
             ELSE IF ~fs_ok THEN Err("IoError")
             ELSE Ok(join(OutputDir, strip_prefix(d, game_path)))
      [] output = "Flatten" ->
             IF ~fs_ok THEN Err("IoError")
             ELSE IF ~is_prefix(game_path, d) THEN [tag |-> "Panic"]
             ELSE Ok(join(OutputDir, flatten(strip_prefix(d, game_path))))

\* the files decrypt_all's walk makes of the entries
SourceFiles ==
    {from_path_encrypted(p, TRUE) : p \in {q \in SourcePaths : from_encrypted_path(q) # "None"}}

\* two entries of one walk, for the targets of both
PairPaths ==
    { [dir |-> <<"game">>, name |-> <<"a", "rpgmvp">>],
      [dir |-> <<"game">>, name |-> <<"a", "png_">>],
      [dir |-> <<"game", "img">>, name |-> <<"b_c", "rpgmvp">>],
      [dir |-> <<"game", "img_b">>, name |-> <<"c", "rpgmvp">>],
      [dir |-> <<"game", "img">>, name |-> <<"c", "rpgmvp">>],
      [dir |-> <<"game", "www", "img">>, name |-> <<"test", "rpgmvp">>] }

\* create_path_from_output called on one file
CreatePathFromOutput(output, file, fs_ok) ==
    /\ call' = [fn |-> "create_path_from_output", output |-> output, file |-> file,
                game_path |-> GameRoot, fs_ok |-> fs_ok]
    /\ ret' = create_path_from_output(output, file, GameRoot, fs_ok)
    /\ LibCall

\* the closures of one decrypt_all on two entries of the walk, up to the
\* path each writes to
DecryptAllTargets(output, p, q) ==
    /\ p # q
    /\ call' = [fn |-> "decrypt_all", output |-> output, first |-> p, second |-> q]
    /\ ret' = [tag |-> "Targets",
               first |-> create_path_from_output(output, from_path_encrypted(p, TRUE),
                                                 GameRoot, TRUE),
               second |-> create_path_from_output(output, from_path_encrypted(q, TRUE),
                                                  GameRoot, TRUE)]
    /\ LibCall

InitOut == CodecIdle /\ LibIdle /\ CfgIdle /\ BatchIdle

NextOut ==
    \/ \E output \in OutputSettings, file \in SourceFiles, fs_ok \in BOOLEAN :
           CreatePathFromOutput(output, file, fs_ok)
    \/ \E output \in OutputSettings, p \in PairPaths, q \in PairPaths :
           DecryptAllTargets(output, p, q)

SpecOut == InitOut /\ [][NextOut]_vars

\* the candidate get_system_json reads and the document its text holds
Chosen == CHOOSE i \in existing(disk) : \A j \in existing(disk) : i <= j

ChosenDoc == from_str(disk[Chosen].text)

\* C15: key extraction from the document: an absent encryptionKey gives the
\* key-field-missing error, one that is not a string the invalid-type
\* error, and a string that hex-decodes gives the decoded bytes together
\* with the string as written.
C15_KeyExtraction ==
    call.fn = "try_get_key" =>
        LET v == system_json.data["encryptionKey"] IN
        /\ v.kind = "absent" => ret = Err("SystemJsonKeyNotFound")
        /\ v.kind \notin {"absent", "string"} => ret = Err("SystemJsonInvalidKey")
        /\ (v.kind = "string" /\ decode_hex(v.s).tag = "Ok") =>
               ret = Ok([bytes |-> decode_hex(v.s).bytes, key |-> v.s])

IsTrue(v) == v = JBool(TRUE)

WrongType(v) == v.kind \notin {"absent", "bool"}

\* a document read from a file that exists and is valid JSON
ReadDocument ==
    /\ call.fn = "get_system_json"
    /\ existing(disk) # {}
    /\ valid_json(disk[Chosen].text)

ReloadAfterWrite ==
    /\ call.fn = "get_system_json"
    /\ call.prev.fn = "write"
    /\ call.prev.io_ok

\* the reloaded document has both flags v, is declared v, and is otherwise
\* the document before the write
Flipped ==
    /\ ret = [tag |-> "Ok"]
    /\ system_json.data["hasEncryptedAudio"] = JBool(call.prev.v)
    /\ system_json.data["hasEncryptedImages"] = JBool(call.prev.v)
    /\ system_json.encrypted = call.prev.v
    /\ \A f \in Fields \ {"hasEncryptedAudio", "hasEncryptedImages"} :
           system_json.data[f] = call.prev.before[f]

BothFlagsPresent(doc) ==
    doc["hasEncryptedAudio"] # Absent /\ doc["hasEncryptedImages"] # Absent

\* C17 as stated: for every loaded document and every boolean v, set and
\* persist of v followed by a reload yields both flags v, declared v, and
\* every other field unchanged.
C17_FlagFlipAnyDocument == ReloadAfterWrite => Flipped

\* C17: for a loaded document in which both flags are present, set and
\* persist of v followed by a reload yields both flags v, declared v, and
\* every other field unchanged; when a flag is missing the set fails with
\* the key-not-found error and the reload yields a document that still
\* lacks a flag.
C17_FlagFlip ==
    ReloadAfterWrite =>
        IF BothFlagsPresent(call.prev.before)
        THEN call.prev.ok /\ Flipped
        ELSE /\ ~call.prev.ok
             /\ ret = [tag |-> "Ok"]
             /\ ~BothFlagsPresent(system_json.data)

\* the flags true and false were set to false, written and read back
C17_Witness ==
    /\ ReloadAfterWrite
    /\ call.prev.ok
    /\ call.prev.v = FALSE
    /\ call.prev.before["hasEncryptedImages"] = JBool(TRUE)
    /\ call.prev.before["hasEncryptedAudio"] = JBool(FALSE)
    /\ call.prev.before["gameTitle"] # Absent
    /\ system_json.data["hasEncryptedImages"] = JBool(FALSE)

C18_WitnessBoth ==
    /\ call.fn = "write"
    /\ ret = [tag |-> "Ok"]
    /\ disk[2].exists
    /\ valid_json(disk[2].text)
    /\ system_json.path = 1

\* a closure is between its transform and the end of its write
InFlight(i) == worker[i].pc \in {"todo", "count", "print", "write"}

Ended == batch.pc \in {"returned", "panicked"}

\* C19 as stated: every run of decrypt_all or encrypt_all performs exactly
\* one mutation-and-persist of System.json, after all per-file work.
C19_ExactlyOnePersist ==
    Ended => (batch.persists = 1 /\ \A i \in Assets : ~InFlight(i))

\* C19: a batch performs at most one mutation-and-persist of System.json,
\* and only when no closure is still transforming or writing; a batch that
\* returns performed exactly one if it is encrypt_all or decrypt_all with
\* Replace and none with NextTo, Output or Flatten; a batch that ends in a
\* panic performed none.
C19_Barrier ==
    /\ batch.persists <= 1
    /\ batch.persists = 1 => \A i \in Assets : worker[i].pc \in {"none", "done"}
    /\ batch.pc = "returned" =>
           batch.persists = (IF batch.op = "encrypt_all" \/ batch.output = "Replace" THEN 1 ELSE 0)
    /\ batch.pc \in {"idle", "files", "panicked"} => batch.persists = 0

\* an in-place decrypt_all of two files has written both and then persisted
C19_Witness ==
    /\ batch.pc = "returned"
    /\ batch.op = "decrypt_all"
    /\ batch.output = "Replace"
    /\ batch.persists = 1
    /\ \A i \in 1..2 : worker[i].result = "Ok" /\ assets[i].dec = Stored(PlainFull)
    /\ ret.tag = "Ok"

\* the batch ended otherwise than by a failure of the System.json write
EndedByFiles == Ended /\ ret.tag # "Err"

\* C20: a per-file failure (a file too short, or a filesystem error while
\* reading, removing or writing one asset) never aborts the batch: the
\* batch returns, every candidate was attempted to its end, and the list
\* holds one result for each of them.
C20_PerFileFailureIsolated ==
    EndedByFiles =>
        /\ batch.pc = "returned"
        /\ \A i \in Assets :
              worker[i].pc # "none" => (worker[i].pc = "done" /\ worker[i].result # "none")

\* the value of a field in the System.json file as it is on disk
Persisted(f) == from_str(disk[system_json.path].text)[f]

ReturnedOk == batch.pc = "returned" /\ ret.tag = "Ok"

\* C21: the flags of System.json agree with the files: after an in-place
\* decrypt_all has returned with the flags false, an obfuscated file of the
\* batch remains only if its failure is in the returned list; after
\* encrypt_all has returned with the flags true, every plain asset of the
\* batch has its obfuscated file.
C21_FlagsMatchFiles ==
    ReturnedOk =>
        /\ (/\ batch.op = "decrypt_all"
            /\ batch.output = "Replace"
            /\ Persisted("hasEncryptedAudio") = JBool(FALSE)
            /\ Persisted("hasEncryptedImages") = JBool(FALSE)) =>
               \A i \in Assets :
                   assets[i].enc.exists => worker[i].result \in {"FileTooShort", "IoError"}
        /\ (/\ batch.op = "encrypt_all"
            /\ Persisted("hasEncryptedAudio") = JBool(TRUE)
            /\ Persisted("hasEncryptedImages") = JBool(TRUE)) =>
               \A i \in Assets : worker[i].pc # "none" => assets[i].enc.exists

\* C22: during a batch no per-file step changes the key or the
\* configuration document, neither its JSON data nor its declared-encrypted
\* flag nor its file: they change at the barrier after the files only.
C22_ReadShared ==
    [][(batch.pc = "files" /\ worker' # worker) =>
           (key_bytes' = key_bytes /\ system_json' = system_json /\ disk' = disk)]_vars

\* the buffer without its magic header, nothing else done to it
Drained(d) == SubSeq(d, HeaderLen + 1, Len(d))

\* the last call on the value failed: it returned Err or it panicked
Failed == Len(hist) > 0 /\ res \in {"FileTooShort", "Panic"}

\* when the last call failed, the buffer it owned, as it was at its return
\* or unwinding
UntouchedOnFailure ==
    Failed =>
        /\ res = "FileTooShort" => data = Last.data
        /\ res = "Panic" =>
               /\ data \in {Last.data, Drained(Last.data)}
               /\ Last.op \in {"encrypt", "restore_img"} => data = Last.data

ObfuscatedExtensions == {"rpgmvo", "ogg_", "rpgmvm", "m4a_", "rpgmvp", "png_"}

\* create_path_from_output returned a path for a file under the game root
PathReturned ==
    /\ call.fn = "create_path_from_output"
    /\ ret.tag = "Ok"
    /\ is_prefix(call.game_path, call.file.decrypted_path)

\* C24: create_path_from_output returns the decrypted path d itself for
\* NextTo and Replace, dir/(d relative to the game root) for Output, and for
\* Flatten dir/name with name the relative d with "_" for each separator and
\* the plain extension kept (game/www/img/test.rpgmvp gives
\* output_dir/www_img_test.png); the path never has an obfuscated extension.
C24_OutputPath ==
    PathReturned =>
        LET d == call.file.decrypted_path
            rel == SubSeq(d.dir, Len(call.game_path) + 1, Len(d.dir))
            new_path == ret.val
        IN  /\ call.output \in {"NextTo", "Replace"} => new_path = d
            /\ call.output = "Output" =>
                   new_path = [dir |-> OutputDir \o rel, name |-> d.name]
            /\ call.output = "Flatten" =>
                   /\ new_path.dir = OutputDir
                   /\ Len(new_path.name) = Len(d.name)
                   /\ \A i \in 2..Len(d.name) : new_path.name[i] = d.name[i]
                   /\ rel = <<>> => new_path.name = d.name
                   /\ (rel = <<"www", "img">> /\ d.name = <<"test", "png">>) =>
                          new_path.name = <<"www_img_test", "png">>
                   /\ (rel = <<"img_b">> /\ d.name = <<"c", "png">>) =>
                          new_path.name = <<"img_b_c", "png">>
            /\ extension(new_path) = to_extension_decrypted(call.file.file_type)
            /\ extension(new_path) \notin ObfuscatedExtensions

\* Flatten of game/www/img/test.rpgmvp is output_dir/www_img_test.png
C24_Witness ==
    /\ PathReturned
    /\ call.output = "Flatten"
    /\ call.file.encrypted_path = [dir |-> <<"game", "www", "img">>, name |-> <<"test", "rpgmvp">>]
    /\ ret.val = [dir |-> <<"output_dir">>, name |-> <<"www_img_test", "png">>]

\* C28: within one decrypt_all two distinct obfuscated source files never
\* get the same output path, in any output mode.
C28_DistinctTargets ==
    (call.fn = "decrypt_all" /\ ret.tag = "Targets" /\ call.first # call.second) =>
        ret.first # ret.second

\* C25: decrypt_all and encrypt_all scan the game directory for the file
\* total only if no count is cached: no scan when scan_files has run before,
\* exactly one otherwise.
C25_ScanOnlyOnce ==
    batch.op \in {"decrypt_all", "encrypt_all"} =>
        batch.scans = (IF batch.cached THEN 0 ELSE 1)

\* the obfuscated files of the game, all of them readable and whole
Decryptable == {i \in Assets : assets[i].enc.exists}

AllDecryptable ==
    \A i \in Decryptable : assets[i].readable /\ assets[i].enc.bytes = EncFull

\* C26: in the sequential version, decrypt_all with Specific or Flatten,
\* started with dir not existing on a game with n >= 1 decryptable files and
\* no filesystem failure, writes the n decrypted files under dir, leaves the
\* game's files as they are and returns Ok(n); OutputDirExists is returned
\* only when dir existed before the batch started.
C26_OutputDirSeq ==
    (/\ batch.op = "decrypt_all_seq"
     /\ batch.output \in {"Specific", "Flatten"}
     /\ Ended) =>
        /\ ret = Err("OutputDirExists") => batch.dir_existed
        /\ (/\ ~batch.dir_existed
            /\ Decryptable # {}
            /\ AllDecryptable
            /\ ret # Err("IoError")) =>
               /\ ret = Ok(Cardinality(Decryptable))
               /\ \A i \in Decryptable :
                      /\ assets[i].out = Stored(PlainFull)
                      /\ assets[i].enc = Stored(EncFull)

\* C27: no asset is lost by an in-place decrypt_all: at every point of the
\* batch each of its files has its obfuscated file or its whole decrypted
\* file on disk, and a file whose decrypt failed keeps its obfuscated file.
C27_NoAssetLost ==
    (batch.op = "decrypt_all" /\ batch.output = "Replace") =>
        \A i \in Assets :
            worker[i].pc # "none" =>
                /\ assets[i].enc.exists \/ assets[i].dec = Stored(PlainFull)
                /\ worker[i].result = "FileTooShort" => assets[i].enc.exists

\* C30: in a verbose decrypt_all the progress indices printed are pairwise
\* distinct and lie in 1..N: the files that reached print_progress report
\* the indices 1..k, each once.
C30_ProgressIndices ==
    (batch.op = "decrypt_all" /\ verbose) =>
        LET printed == {i \in Assets : worker[i].index # 0} IN
        /\ \A i \in printed : worker[i].index \in 1..batch.num_files
        /\ \A i, j \in printed : i # j => worker[i].index # worker[j].index
        /\ (\A i \in Assets : worker[i].pc # "print") =>
               {worker[i].index : i \in printed} = 1..Cardinality(printed)

\* C29: a failed write of the flags (a flag field missing, or the write to
\* disk failing) leaves the document as it was: the in-memory data equals
\* the data before the call, and the file on disk is not changed by the call
C29_UnchangedOnError ==
    [][(call'.fn = "write" /\ ret'.tag = "Err") =>
           (system_json'.data = system_json.data /\ disk' = disk)]_vars

====
